---- MODULE Spec2Model ----
(***************************************************************************)
(* The controller layer of the Outgunned dice bot (bot/controller.py):     *)
(* the /roll and /settings commands, the three dynamic follow-up buttons   *)
(* and the way a roll session lives in the rendered message between two    *)
(* interactions.  bot.dice, bot.roll, bot.message and bot.channel_settings *)
(* are collaborators of the controller; they are modelled from their       *)
(* contract in the design document.                                        *)
(***************************************************************************)
EXTENDS Integers, Sequences, FiniteSets, TLC

VARIABLES
    settings,   \* channel_settings: channel id -> DiceSet member, or NoSetting
    msg,        \* the roll message of the session (NoMsg before /roll)
    pending,    \* component interactions the platform has dispatched, not yet handled
    presses,    \* the number of button presses so far
    last,       \* ghost: what the most recent handler run did
    fired       \* ghost: the number of follow-up transitions applied in the session

vars == <<settings, msg, pending, presses, last, fired>>

----------------------------------------------------------------------------
(* Bounds of the model *)

\* the number of button presses followed within one session
MaxPresses == 2

\* the largest user id a button is built for where the tokens are studied
MaxUserId == 120

----------------------------------------------------------------------------
(* Universe *)

Users == {7, 12}

Channels == {1, 2}

Kinds == {"reroll", "free_reroll", "all_in"}

NoSetting == "unset"

NoMsg == [exists |-> FALSE]

----------------------------------------------------------------------------
(* bot.dice.DiceSet: an enumeration whose members have a short-string value *)

DiceSetMembers == {"BASIC", "SYMBOLS"}

DiceSetDefault == "BASIC"

\* DiceSet.value
DiceSetValue(member) ==
    CASE member = "BASIC" -> "basic"
      [] member = "SYMBOLS" -> "symbols"

\* DiceSet(s) raises ValueError unless s is the value of a member
DiceSetValid(s) == \E m \in DiceSetMembers : DiceSetValue(m) = s

\* DiceSet(s): the member whose value is s
DiceSet(s) == CHOOSE m \in DiceSetMembers : DiceSetValue(m) = s

\* the glyph a dice set draws for each face (one column per face)
Glyphs(dice_set) ==
    CASE dice_set = "BASIC" -> <<"1", "2">>
      [] dice_set = "SYMBOLS" -> <<"a", "b">>

----------------------------------------------------------------------------
(* bot.roll: RollHistory and Roller *)

\* the outcomes of n dice that are followed, over two faces: every die on the
\* first face, or the first die on the second face
Outcomes(n) == {[i \in 1..n |-> 1], [i \in 1..n |-> IF i = 1 THEN 2 ELSE 1]}

\* a fresh RollHistory
Fresh == [outcomes |-> <<>>, reroll |-> FALSE, free_reroll |-> FALSE, all_in |-> FALSE]

\* a follow-up action has fired
Terminal(h) == Len(h.outcomes) > 1

can_reroll(h) == h.reroll /\ Len(h.outcomes) = 1

can_free_reroll(h) == h.free_reroll /\ Len(h.outcomes) = 1

can_go_all_in(h) == h.all_in /\ Len(h.outcomes) = 1

\* Roller.roll(): one outcome; the reroll right is always offered, the two
\* others are what the eligibility policy e gives for the outcome
roll(h, o, e) ==
    [outcomes |-> <<o>>, reroll |-> TRUE, free_reroll |-> e.free_reroll, all_in |-> e.all_in]

\* Roller.reroll(): appends the new outcome and consumes the right
reroll(h, o) == [h EXCEPT !.outcomes = Append(@, o), !.reroll = FALSE]

free_reroll(h, o) == [h EXCEPT !.outcomes = Append(@, o), !.free_reroll = FALSE]

all_in(h, o) == [h EXCEPT !.outcomes = Append(@, o), !.all_in = FALSE]

\* the eligibility policies of the scoring logic
Eligibilities == [free_reroll : BOOLEAN, all_in : BOOLEAN]

----------------------------------------------------------------------------
(* bot.message: MessageGenerator and MessageParser *)

\* the text of one outcome: the glyph of each die
RenderOutcome(o, dice_set) == [i \in 1..Len(o) |-> Glyphs(dice_set)[o[i]]]

\* MessageGenerator(dice_set).generate_roll_message(h)
generate_roll_message(h, dice_set) ==
    [format |-> "roll",
     rolls  |-> [i \in 1..Len(h.outcomes) |-> RenderOutcome(h.outcomes[i], dice_set)],
     rights |-> <<h.reroll, h.free_reroll, h.all_in>>]

\* a message content that is not in the mini-format
Malformed == [format |-> "other", rolls |-> <<>>, rights |-> <<FALSE, FALSE, FALSE>>]

\* the face a glyph stands for in a dice set, 0 when it is not a glyph of it
FaceOf(g, dice_set) ==
    IF \E f \in 1..Len(Glyphs(dice_set)) : Glyphs(dice_set)[f] = g
    THEN CHOOSE f \in 1..Len(Glyphs(dice_set)) : Glyphs(dice_set)[f] = g
    ELSE 0

\* MessageParser raises ParseError on this content
ParseFails(content, dice_set) ==
    \/ content.format # "roll"
    \/ Len(content.rolls) = 0
    \/ \E i \in 1..Len(content.rolls) :
          \E j \in 1..Len(content.rolls[i]) : FaceOf(content.rolls[i][j], dice_set) = 0

\* MessageParser(interaction, dice_set).roll_history
MessageParser(content, dice_set) ==
    [outcomes    |-> [i \in 1..Len(content.rolls) |->
                        [j \in 1..Len(content.rolls[i]) |->
                            FaceOf(content.rolls[i][j], dice_set)]],
     reroll      |-> content.rights[1],
     free_reroll |-> content.rights[2],
     all_in      |-> content.rights[3]]

----------------------------------------------------------------------------
(* Action identifiers.  A custom id is the text split at its colons: a     *)
(* tuple of fields, the user field a string of characters.                 *)

DigitChars == <<"0", "1", "2", "3", "4", "5", "6", "7", "8", "9">>

IsDigit(c) == \E d \in 1..10 : DigitChars[d] = c

DigitValue(c) == (CHOOSE d \in 1..10 : DigitChars[d] = c) - 1

\* str(n) for an int n >= 0, as f'{user_id}' formats it
RECURSIVE IntToStr(_)
IntToStr(n) ==
    IF n < 10 THEN <<DigitChars[n + 1]>>
    ELSE Append(IntToStr(n \div 10), DigitChars[(n % 10) + 1])

\* int(s) for a string of digits
RECURSIVE StrToInt(_)
StrToInt(s) ==
    IF Len(s) = 0 THEN 0
    ELSE 10 * StrToInt(SubSeq(s, 1, Len(s) - 1)) + DigitValue(s[Len(s)])

\* [0-9]+
MatchesDigits(s) == Len(s) > 0 /\ \A i \in 1..Len(s) : IsDigit(s[i])

\* the dice-set fields that \w+ does not match
NonWords == {"", "two words"}

\* \w+
MatchesWord(s) == s \notin NonWords

\* re.fullmatch of 'roll:<kind>:user:(?P<user_id>[0-9]+):dice_set:(?P<dice_set>\w+)'
TemplateMatches(kind, custom_id) ==
    /\ Len(custom_id) = 6
    /\ custom_id[1] = "roll"
    /\ custom_id[2] = kind
    /\ custom_id[3] = "user"
    /\ MatchesDigits(custom_id[4])
    /\ custom_id[5] = "dice_set"
    /\ MatchesWord(custom_id[6])

\* the Re-roll template matched with re.match: nothing anchors its end
DynamicRerollButton_template_unanchored(custom_id) ==
    /\ Len(custom_id) >= 6
    /\ TemplateMatches("reroll", SubSeq(custom_id, 1, 6))

DynamicRerollButton_template(custom_id) == TemplateMatches("reroll", custom_id)

DynamicFreeRerollButton_template(custom_id) == TemplateMatches("free_reroll", custom_id)

DynamicAllInButton_template(custom_id) == TemplateMatches("all_in", custom_id)

\* the button classes whose template the custom id matches
MatchingKinds(custom_id) ==
    {k \in Kinds :
        \/ k = "reroll" /\ DynamicRerollButton_template(custom_id)
        \/ k = "free_reroll" /\ DynamicFreeRerollButton_template(custom_id)
        \/ k = "all_in" /\ DynamicAllInButton_template(custom_id)}

\* the custom_id the constructors of the three button classes format
DynamicRerollButton(user_id, dice_set) ==
    <<"roll", "reroll", "user", IntToStr(user_id), "dice_set", DiceSetValue(dice_set)>>

\* the Free Re-roll constructor with the format string of the Re-roll one
DynamicFreeRerollButton_pasted(user_id, dice_set) ==
    <<"roll", "reroll", "user", IntToStr(user_id), "dice_set", DiceSetValue(dice_set)>>

DynamicFreeRerollButton(user_id, dice_set) ==
    <<"roll", "free_reroll", "user", IntToStr(user_id), "dice_set", DiceSetValue(dice_set)>>

DynamicAllInButton(user_id, dice_set) ==
    <<"roll", "all_in", "user", IntToStr(user_id), "dice_set", DiceSetValue(dice_set)>>

\* from_custom_id raises ValueError: the dice-set field is no DiceSet value
from_custom_id_raises(custom_id) == ~DiceSetValid(custom_id[6])

\* from_custom_id: the button object rebuilt from a matching custom id
from_custom_id(kind, custom_id) ==
    [kind |-> kind, user_id |-> StrToInt(custom_id[4]), dice_set |-> DiceSet(custom_id[6])]

\* RollView adding the Free Re-roll button on the all-in flag and the All In
\* button on the free re-roll flag
RollView_swapped(user_id, dice_set, with_reroll, with_free_reroll, with_all_in) ==
    (IF with_reroll THEN <<DynamicRerollButton(user_id, dice_set)>> ELSE <<>>)
    \o (IF with_all_in THEN <<DynamicFreeRerollButton(user_id, dice_set)>> ELSE <<>>)
    \o (IF with_free_reroll THEN <<DynamicAllInButton(user_id, dice_set)>> ELSE <<>>)

\* RollView: the buttons of the view, in the order they are added
RollView(user_id, dice_set, with_reroll, with_free_reroll, with_all_in) ==
    (IF with_reroll THEN <<DynamicRerollButton(user_id, dice_set)>> ELSE <<>>)
    \o (IF with_free_reroll THEN <<DynamicFreeRerollButton(user_id, dice_set)>> ELSE <<>>)
    \o (IF with_all_in THEN <<DynamicAllInButton(user_id, dice_set)>> ELSE <<>>)

----------------------------------------------------------------------------
(* The controller: what one run of a handler computes *)

\* dice_set_for_interaction: the channel's dice set, the default when none is set
dice_set_for_interaction(channel_id) ==
    IF settings[channel_id] = NoSetting THEN DiceSetDefault ELSE settings[channel_id]

\* handle_roll driving the roller twice
handle_roll_rerolled(user_id, dice_set, num_dice, o, e) ==
    LET h == reroll(roll(Fresh, o, e), o) IN
    [hist     |-> h,
     view     |-> RollView(user_id, dice_set, can_reroll(h), can_free_reroll(h),
                           can_go_all_in(h)),
     content  |-> generate_roll_message(h, dice_set),
     sent     |-> 1]

\* RollController.handle_roll: the history, the view and the content it sends
handle_roll(user_id, dice_set, num_dice, o, e) ==
    LET h == roll(Fresh, o, e) IN
    [hist     |-> h,
     view     |-> RollView(user_id, dice_set, can_reroll(h), can_free_reroll(h),
                           can_go_all_in(h)),
     content  |-> generate_roll_message(h, dice_set),
     sent     |-> 1]

\* CoinController.handle_coin, D6Controller.handle_d6 and
\* HelpController.handle_help: a message generator without a dice set, and
\* one send_message
handle_coin == [sent |-> 1]

handle_d6 == [sent |-> 1]

handle_help == [sent |-> 1]

\* handle_settings storing the dice set for every channel at once
handle_settings_global(channel_id, dice_set_str) ==
    IF ~DiceSetValid(dice_set_str)
    THEN [raised |-> "ValueError", settings |-> settings, sent |-> 0, text |-> "none"]
    ELSE [raised   |-> "none",
          settings |-> [c \in Channels |-> DiceSet(dice_set_str)],
          sent     |-> 1,
          text     |-> DiceSetValue(DiceSet(dice_set_str))]

\* handle_settings falling back to the default dice set on an invalid string
handle_settings_defaulting(channel_id, dice_set_str) ==
    LET dice_set == IF DiceSetValid(dice_set_str) THEN DiceSet(dice_set_str)
                    ELSE DiceSetDefault
    IN [raised   |-> "none",
        settings |-> [settings EXCEPT ![channel_id] = dice_set],
        sent     |-> 1,
        text     |-> DiceSetValue(dice_set)]

\* SettingsController.handle_settings: DiceSet(dice_set_str) raises on an
\* invalid string, before anything is stored or sent; otherwise the dice set
\* is stored for the channel and one confirmation is sent
handle_settings(channel_id, dice_set_str) ==
    IF ~DiceSetValid(dice_set_str)
    THEN [raised |-> "ValueError", settings |-> settings, sent |-> 0, text |-> "none"]
    ELSE [raised   |-> "none",
          settings |-> [settings EXCEPT ![channel_id] = DiceSet(dice_set_str)],
          sent     |-> 1,
          text     |-> DiceSetValue(DiceSet(dice_set_str))]

\* what a handler run that stops before _update_message leaves behind
Stopped(i, how, raised, parsed, notice) ==
    [outcome |-> how, raised |-> raised, parsed |-> parsed, transition |-> "none",
     notice |-> notice, edit |-> "none", hist |-> Fresh, content |-> i.content,
     view |-> <<>>]

\* interaction_check letting every user through
interaction_check_open(b, i) == TRUE

\* AbstractDynamicButton.interaction_check
\* interaction_check with the comparison inverted
interaction_check_inverted(b, i) == i.user # b.user_id

interaction_check(b, i) == i.user = b.user_id

\* _update_message building the view from the right flags, not from the
\* legality queries
update_message_flags(b, i, kind, h, edit_ok) ==
    [outcome    |-> IF edit_ok THEN "edited" ELSE "edit_failed",
     raised     |-> "none",
     parsed     |-> TRUE,
     transition |-> kind,
     notice     |-> "none",
     edit       |-> IF edit_ok THEN "ok" ELSE "failed",
     hist       |-> h,
     content    |-> generate_roll_message(h, b.dice_set),
     view       |-> RollView(i.user, b.dice_set, h.reroll, h.free_reroll, h.all_in)]

\* _update_message rendering with the default dice set, as the generators of
\* the coin, d6 and help messages are built
update_message_default_set(b, i, kind, h, edit_ok) ==
    [outcome    |-> IF edit_ok THEN "edited" ELSE "edit_failed",
     raised     |-> "none",
     parsed     |-> TRUE,
     transition |-> kind,
     notice     |-> "none",
     edit       |-> IF edit_ok THEN "ok" ELSE "failed",
     hist       |-> h,
     content    |-> generate_roll_message(h, DiceSetDefault),
     view       |-> RollView(i.user, b.dice_set, can_reroll(h), can_free_reroll(h),
                             can_go_all_in(h))]

\* _update_message rendering with the dice set the channel has at the time
\* of the press, as handle_roll does
update_message_channel_set(b, i, kind, h, edit_ok) ==
    [outcome    |-> IF edit_ok THEN "edited" ELSE "edit_failed",
     raised     |-> "none",
     parsed     |-> TRUE,
     transition |-> kind,
     notice     |-> "none",
     edit       |-> IF edit_ok THEN "ok" ELSE "failed",
     hist       |-> h,
     content    |-> generate_roll_message(h, dice_set_for_interaction(msg.channel)),
     view       |-> RollView(i.user, dice_set_for_interaction(msg.channel),
                             can_reroll(h), can_free_reroll(h), can_go_all_in(h))]

\* AbstractDynamicButton._update_message: the view and the message it builds
\* from the history after the transition, and the edit it attempts
update_message(b, i, kind, h, edit_ok) ==
    [outcome    |-> IF edit_ok THEN "edited" ELSE "edit_failed",
     raised     |-> "none",
     parsed     |-> TRUE,
     transition |-> kind,
     notice     |-> "none",
     edit       |-> IF edit_ok THEN "ok" ELSE "failed",
     hist       |-> h,
     content    |-> generate_roll_message(h, b.dice_set),
     view       |-> RollView(i.user, b.dice_set, can_reroll(h), can_free_reroll(h),
                             can_go_all_in(h))]

DynamicRerollButton_callback(b, i, o, edit_ok) ==
    IF ParseFails(i.content, b.dice_set)
    THEN Stopped(i, "parse_error", "ParseError", TRUE, "none")
    ELSE LET roll_history == MessageParser(i.content, b.dice_set) IN
         IF ~can_reroll(roll_history)
         THEN Stopped(i, "illegal", "RuntimeError", TRUE, "none")
         ELSE update_message(b, i, "reroll", reroll(roll_history, o), edit_ok)

\* the Free Re-roll callback with the body of the Re-roll callback
DynamicFreeRerollButton_callback_pasted(b, i, o, edit_ok) ==
    IF ParseFails(i.content, b.dice_set)
    THEN Stopped(i, "parse_error", "ParseError", TRUE, "none")
    ELSE LET roll_history == MessageParser(i.content, b.dice_set) IN
         IF ~can_reroll(roll_history)
         THEN Stopped(i, "illegal", "RuntimeError", TRUE, "none")
         ELSE update_message(b, i, "reroll", reroll(roll_history, o), edit_ok)

DynamicFreeRerollButton_callback(b, i, o, edit_ok) ==
    IF ParseFails(i.content, b.dice_set)
    THEN Stopped(i, "parse_error", "ParseError", TRUE, "none")
    ELSE LET roll_history == MessageParser(i.content, b.dice_set) IN
         IF ~can_free_reroll(roll_history)
         THEN Stopped(i, "illegal", "RuntimeError", TRUE, "none")
         ELSE update_message(b, i, "free_reroll", free_reroll(roll_history, o), edit_ok)

DynamicAllInButton_callback(b, i, o, edit_ok) ==
    IF ParseFails(i.content, b.dice_set)
    THEN Stopped(i, "parse_error", "ParseError", TRUE, "none")
    ELSE LET roll_history == MessageParser(i.content, b.dice_set) IN
         IF ~can_go_all_in(roll_history)
         THEN Stopped(i, "illegal", "RuntimeError", TRUE, "none")
         ELSE update_message(b, i, "all_in", all_in(roll_history, o), edit_ok)

\* the callback of the button's class
callback(b, i, o, edit_ok) ==
    CASE b.kind = "reroll" -> DynamicRerollButton_callback(b, i, o, edit_ok)
      [] b.kind = "free_reroll" -> DynamicFreeRerollButton_callback(b, i, o, edit_ok)
      [] b.kind = "all_in" -> DynamicAllInButton_callback(b, i, o, edit_ok)

\* the dispatch of a component interaction to the dynamic items: the custom id
\* is matched against the registered templates; a match is rebuilt into a
\* button with from_custom_id, checked with interaction_check and called
Dispatch(i, o, edit_ok) ==
    IF MatchingKinds(i.custom_id) = {}
    THEN Stopped(i, "ignored", "none", FALSE, "none")
    ELSE LET kind == CHOOSE k \in MatchingKinds(i.custom_id) : TRUE IN
         IF from_custom_id_raises(i.custom_id)
         THEN Stopped(i, "creation_failed", "ValueError", FALSE, "none")
         ELSE LET b == from_custom_id(kind, i.custom_id) IN
              IF ~interaction_check(b, i)
              THEN Stopped(i, "unauthorized", "none", FALSE, "cannot_reroll_others")
              ELSE callback(b, i, o, edit_ok)

----------------------------------------------------------------------------
(* The state machine *)

\* the /settings commands followed: <<channel id, dice-set string>>
SettingChoices == {<<1, "symbols">>}

\* the settings commands followed where the commands are studied on their
\* own: either channel, a dice set other than the default and a string that
\* names no dice set
CommandSettings == Channels \X {"symbols", "retired"}

\* the roll followed there
CommandRolls == {<<7, 1, 1>>}

\* the /roll commands followed: <<user id, channel id, number of dice>>
RollChoices == {<<7, 1, 1>>, <<12, 2, 2>>}

\* custom ids of components that are not buttons of a roll message as this
\* version renders them
ForeignIds(user_id) ==
    {<<"poll", "vote">>,
     <<"roll", "reroll", "user", IntToStr(user_id), "dice_set", "basic", "v2">>,
     <<"roll", "reroll", "user", IntToStr(user_id), "dice_set", "retired">>}

\* the custom ids of the three buttons of the session, rendered or not
SessionIds ==
    {DynamicRerollButton(msg.owner, msg.dice_set),
     DynamicFreeRerollButton(msg.owner, msg.dice_set),
     DynamicAllInButton(msg.owner, msg.dice_set)}

Rendered(custom_id) == \E k \in 1..Len(msg.view) : msg.view[k] = custom_id

\* the presses followed: the owner presses any button of the session, shown
\* on the message or not (a stale or forged one), or a foreign component;
\* another user presses a button the message shows
PressChoices ==
    IF ~msg.exists THEN {}
    ELSE {<<msg.owner, cid>> : cid \in SessionIds \cup ForeignIds(msg.owner)}
         \cup {<<u, cid>> : u \in Users \ {msg.owner},
                             cid \in {c \in SessionIds : Rendered(c)}}

Init ==
    /\ settings = [c \in Channels |-> NoSetting]
    /\ msg = NoMsg
    /\ pending = {}
    /\ presses = 0
    /\ last = [op |-> "none"]
    /\ fired = 0

\* SettingsController.handle_settings
SettingsCommand(channel_id, dice_set_str) ==
    /\ \E r \in {handle_settings(channel_id, dice_set_str)} :
          /\ settings' = r.settings
          /\ last' = [op |-> "settings", channel |-> channel_id,
                      dice_set_str |-> dice_set_str, before |-> settings[channel_id],
                      raised |-> r.raised, sent |-> r.sent, text |-> r.text]
    /\ UNCHANGED <<msg, pending, presses, fired>>

\* RollController.handle_roll, for the roll the session starts with
RollCommand(user_id, channel_id, num_dice) ==
    /\ ~msg.exists
    /\ \E o \in Outcomes(num_dice), e \in Eligibilities :
          \E dice_set \in {dice_set_for_interaction(channel_id)} :
          \E r \in {handle_roll(user_id, dice_set, num_dice, o, e)} :
             /\ msg' = [exists |-> TRUE, owner |-> user_id, channel |-> channel_id,
                        dice_set |-> dice_set, content |-> r.content, view |-> r.view,
                        hist |-> r.hist, by_bot |-> TRUE, lost |-> FALSE]
             /\ last' = [op |-> "roll", num_dice |-> num_dice, eligibility |-> e,
                         sent |-> r.sent]
    /\ UNCHANGED <<settings, pending, presses, fired>>

\* a user presses a component of the message: the platform dispatches an
\* interaction that carries the message as it is at that moment
Press(user_id, custom_id) ==
    /\ msg.exists
    /\ presses < MaxPresses
    /\ presses' = presses + 1
    /\ pending' = pending \cup
          {[user |-> user_id, custom_id |-> custom_id,
            copy |-> Cardinality({j \in pending : /\ j.user = user_id
                                                   /\ j.custom_id = custom_id
                                                   /\ j.content = msg.content}),
            rendered |-> Rendered(custom_id), content |-> msg.content,
            shown |-> msg.hist, by_bot |-> msg.by_bot,
            after_fired |-> fired > 0, after_lost |-> msg.lost,
            overtaken |-> {}]}
    /\ UNCHANGED <<settings, msg, last, fired>>

\* the handler of one dispatched interaction runs, to the end
HandleInteraction(i) ==
    /\ i \in pending
    /\ \E o \in Outcomes(IF Len(i.content.rolls) > 0 THEN Len(i.content.rolls[1]) ELSE 1),
          edit_ok \in BOOLEAN :
          \E r \in {Dispatch(i, o, edit_ok)} :
          /\ msg' = IF r.edit = "ok"
                    THEN [msg EXCEPT !.content = r.content, !.view = r.view,
                                     !.hist = r.hist, !.by_bot = TRUE]
                    ELSE IF r.edit = "failed" THEN [msg EXCEPT !.lost = TRUE]
                    ELSE msg
          /\ fired' = IF r.transition # "none" THEN fired + 1 ELSE fired
          /\ pending' = {[j EXCEPT !.overtaken =
                             IF r.transition # "none" /\ i.rendered
                             THEN @ \cup {r.transition} ELSE @] : j \in pending \ {i}}
          /\ last' = [op |-> "press", user |-> i.user, custom_id |-> i.custom_id,
                      content |-> i.content,
                      rendered |-> i.rendered, after_fired |-> i.after_fired,
                      after_lost |-> i.after_lost, overtaken |-> i.overtaken,
                      lost_before |-> msg.lost,
                      outcome |-> r.outcome, raised |-> r.raised, parsed |-> r.parsed,
                      transition |-> r.transition, notice |-> r.notice,
                      edit |-> r.edit, hist |-> r.hist, view |-> r.view,
                      untouched |-> (msg'.content = msg.content /\ msg'.view = msg.view)]
    /\ UNCHANGED <<settings, presses>>

\* CoinController.handle_coin: one message with the coin flip
CoinCommand ==
    /\ last' = [op |-> "coin", sent |-> handle_coin.sent]
    /\ UNCHANGED <<settings, msg, pending, presses, fired>>

\* D6Controller.handle_d6: one message with the d6 roll
D6Command ==
    /\ last' = [op |-> "d6", sent |-> handle_d6.sent]
    /\ UNCHANGED <<settings, msg, pending, presses, fired>>

\* HelpController.handle_help: one message with the help text
HelpCommand ==
    /\ last' = [op |-> "help", sent |-> handle_help.sent]
    /\ UNCHANGED <<settings, msg, pending, presses, fired>>

\* something other than this version of the bot rewrites the message
ForeignEdit ==
    /\ msg.exists
    /\ msg.content # Malformed
    /\ msg' = [msg EXCEPT !.content = Malformed, !.by_bot = FALSE]
    /\ UNCHANGED <<settings, pending, presses, last, fired>>

Next ==
    \/ \E s \in SettingChoices : SettingsCommand(s[1], s[2])
    \/ \E c \in RollChoices : RollCommand(c[1], c[2], c[3])
    \/ \E p \in PressChoices : Press(p[1], p[2])
    \/ \E i \in pending : HandleInteraction(i)

Spec == Init /\ [][Next]_vars

\* the commands on their own: every command of the bot, the settings command
\* on both channels and with an invalid string, around one session whose
\* Re-roll button either user presses while the message shows it
CommandPresses ==
    IF ~msg.exists THEN {}
    ELSE {<<u, cid>> : u \in Users,
                       cid \in {c \in {DynamicRerollButton(msg.owner, msg.dice_set)} :
                                   Rendered(c)}}

NextCommands ==
    \/ \E s \in CommandSettings : SettingsCommand(s[1], s[2])
    \/ \E c \in CommandRolls : RollCommand(c[1], c[2], c[3])
    \/ CoinCommand
    \/ D6Command
    \/ HelpCommand
    \/ \E p \in CommandPresses : Press(p[1], p[2])
    \/ \E i \in pending : HandleInteraction(i)

SpecCommands == Init /\ [][NextCommands]_vars

\* the tokens on their own: a button of any kind is built for any user id up
\* to MaxUserId and any dice set, and its custom id is matched against the
\* templates and rebuilt into a button
TokenUsers == 0..MaxUserId

\* the constructor of a kind's button class
NewButton(kind, user_id, dice_set) ==
    CASE kind = "reroll" -> DynamicRerollButton(user_id, dice_set)
      [] kind = "free_reroll" -> DynamicFreeRerollButton(user_id, dice_set)
      [] kind = "all_in" -> DynamicAllInButton(user_id, dice_set)

MakeButton(kind, user_id, dice_set) ==
    /\ last' = [op |-> "token", kind |-> kind, user_id |-> user_id,
                dice_set |-> dice_set,
                custom_id |-> NewButton(kind, user_id, dice_set)]
    /\ UNCHANGED <<settings, msg, pending, presses, fired>>

ParseToken ==
    /\ last.op = "token"
    /\ \E m \in {MatchingKinds(last.custom_id)} :
          last' = [op |-> "token_parsed", kind |-> last.kind,
                   user_id |-> last.user_id, dice_set |-> last.dice_set,
                   custom_id |-> last.custom_id,
                   buttons |-> {from_custom_id(k, last.custom_id) :
                                  k \in {j \in m : ~from_custom_id_raises(last.custom_id)}}]
    /\ UNCHANGED <<settings, msg, pending, presses, fired>>

NextTokens ==
    \/ \E k \in Kinds, u \in TokenUsers, d \in DiceSetMembers : MakeButton(k, u, d)
    \/ ParseToken

SpecTokens == Init /\ [][NextTokens]_vars

\* the sessions whose message something else may rewrite
NextForeign == Next \/ ForeignEdit

SpecForeign == Init /\ [][NextForeign]_vars

----------------------------------------------------------------------------
(* Properties *)

\* the most recent handler run was a button press
Pressed == last.op = "press"

\* the custom id is one of the three fixed patterns
\* 'roll:<kind>:user:<digits>:dice_set:<word>'
FixedPattern(custom_id) ==
    /\ Len(custom_id) = 6
    /\ custom_id[1] = "roll"
    /\ custom_id[2] \in Kinds
    /\ custom_id[3] = "user"
    /\ MatchesDigits(custom_id[4])
    /\ custom_id[5] = "dice_set"
    /\ MatchesWord(custom_id[6])

\* C1: at most one follow-up action fires in a session; once one has been
\* applied, a later press of one of the three buttons by the owner fails with
\* the illegal-transition error and applies no transition.
C1_AtMostOneFollowUp ==
    /\ fired <= 1
    /\ (Pressed /\ last.user = msg.owner /\ last.custom_id \in SessionIds
            /\ last.after_fired)
         => (last.transition = "none" /\ last.raised = "RuntimeError")

\* C2: a press by a user other than the one the button's token was generated
\* for is rejected: the user gets the ephemeral notice, MessageParser is not
\* called, no transition is applied, no edit is attempted and the message and
\* its buttons stay as they were.
C2_UnauthorizedPressRejected ==
    (Pressed /\ last.custom_id \in SessionIds /\ last.user # msg.owner)
      => /\ last.notice = "cannot_reroll_others"
         /\ ~last.parsed
         /\ last.transition = "none"
         /\ last.edit = "none"
         /\ last.untouched

C2_Witness ==
    /\ Pressed
    /\ last.rendered
    /\ last.user # msg.owner
    /\ last.outcome = "unauthorized"

\* C3: of two presses of two different rendered buttons dispatched
\* concurrently (the second was in flight when the first was handled), with
\* no edit failing, the one handled second applies no transition and fails
\* with the illegal-transition error.
C3_ConcurrentPressesOneTransition ==
    (Pressed /\ last.rendered /\ last.user = msg.owner /\ ~last.lost_before
            /\ last.overtaken \ {last.custom_id[2]} # {})
      => (last.transition = "none" /\ last.raised = "RuntimeError")

\* C4: after a follow-up action the history holds exactly two outcomes, the
\* three legality queries are false and the message is rendered without
\* buttons.
C4_TerminalAfterFollowUp ==
    /\ (Pressed /\ last.transition # "none")
         => /\ Len(last.hist.outcomes) = 2
            /\ ~can_reroll(last.hist)
            /\ ~can_free_reroll(last.hist)
            /\ ~can_go_all_in(last.hist)
            /\ last.view = <<>>
    /\ (msg.exists /\ Len(msg.hist.outcomes) > 1)
         => (Len(msg.hist.outcomes) = 2 /\ msg.view = <<>>)

C4_Witness ==
    /\ Pressed
    /\ last.transition = "free_reroll"
    /\ last.edit = "ok"
    /\ msg.hist = last.hist
    /\ msg.hist.all_in
    /\ msg.view = <<>>

\* C5: a press whose legality query is false on the parsed history is
\* recovered: the user gets a 'no longer available' notice, no transition is
\* applied, the message is not edited and no exception leaves the callback.
C5_IllegalPressRecovered ==
    (Pressed /\ last.outcome = "illegal")
      => /\ last.notice = "no_longer_available"
         /\ last.raised = "none"
         /\ last.transition = "none"
         /\ last.edit = "none"

\* C6: a failing edit is caught without raising, and the session counts as
\* consumed: no press made after a transition whose edit failed applies a
\* further transition.
C6_FailedEditStillConsumes ==
    /\ (Pressed /\ last.edit = "failed") => last.raised = "none"
    /\ (Pressed /\ last.after_lost) => last.transition = "none"

\* C7: a message content that is not in the mini-format is a hard failure of
\* the press: no transition, no edit, and the failure is reported to the user
\* instead of leaving the callback as an exception.
C7_ParseErrorReported ==
    (Pressed /\ last.outcome = "parse_error")
      => /\ last.transition = "none"
         /\ last.edit = "none"
         /\ last.untouched
         /\ last.raised = "none"
         /\ last.notice = "could_not_process"

\* C8: a custom id that matches none of the three fixed patterns is never
\* made a button and reaches neither MessageParser nor Roller; handling it
\* changes no state and edits no message.
C8_ForeignIdNeverDispatched ==
    (Pressed /\ ~FixedPattern(last.custom_id))
      => /\ last.outcome = "ignored"
         /\ ~last.parsed
         /\ last.transition = "none"
         /\ last.edit = "none"
         /\ last.untouched

C8_Witness ==
    /\ Pressed
    /\ Len(last.custom_id) = 7
    /\ last.custom_id[2] = "reroll"
    /\ last.outcome = "ignored"
    /\ fired = 0

\* C9: handle_roll renders a history of exactly one outcome of the dice count
\* asked for, no follow-up applied, the session not terminal, and the buttons
\* shown are those of the rights the outcome makes eligible, Re-roll among them.
C9_RollYieldsOneOutcome ==
    last.op = "roll"
      => /\ Len(msg.hist.outcomes) = 1
         /\ Len(msg.hist.outcomes[1]) = last.num_dice
         /\ ~Terminal(msg.hist)
         /\ fired = 0
         /\ can_reroll(msg.hist)
         /\ can_free_reroll(msg.hist) = last.eligibility.free_reroll
         /\ can_go_all_in(msg.hist) = last.eligibility.all_in
         /\ Rendered(DynamicRerollButton(msg.owner, msg.dice_set))
         /\ Rendered(DynamicFreeRerollButton(msg.owner, msg.dice_set))
              = last.eligibility.free_reroll
         /\ Rendered(DynamicAllInButton(msg.owner, msg.dice_set))
              = last.eligibility.all_in

C9_Witness ==
    /\ last.op = "roll"
    /\ last.num_dice = 2
    /\ last.eligibility.all_in
    /\ ~last.eligibility.free_reroll
    /\ Len(msg.view) = 2

\* C10: the history a press reconstructs with MessageParser, under the dice
\* set of the pressed button's token, from a message a handler rendered has
\* the outcome sequence and the three right flags of the history rendered.
C10_RenderedHistoryParsesBack ==
    \A i \in pending :
        (i.by_bot /\ FixedPattern(i.custom_id) /\ DiceSetValid(i.custom_id[6]))
          => /\ ~ParseFails(i.content, DiceSet(i.custom_id[6]))
             /\ MessageParser(i.content, DiceSet(i.custom_id[6])) = i.shown

C10_Witness ==
    \E i \in pending :
        /\ i.by_bot
        /\ i.custom_id \in SessionIds
        /\ DiceSet(i.custom_id[6]) = "SYMBOLS"
        /\ Len(i.shown.outcomes) = 2
        /\ i.shown.outcomes[2][1] = 2

\* C11: the channel dice-set configuration is written only by the settings
\* command: a step that changes a channel's stored dice set is a settings
\* command issued in that channel, which leaves the session alone; the roll,
\* coin, d6 and help commands and the button presses leave every channel's
\* stored dice set as it was.
C11_OnlySettingsWritesDiceSet ==
    [][\A c \in Channels :
          settings'[c] # settings[c]
            => /\ last'.op = "settings"
               /\ last'.channel = c
               /\ last'.before = settings[c]
               /\ \A d \in Channels \ {c} : settings'[d] = settings[d]
               /\ UNCHANGED <<msg, pending, presses, fired>>]_vars

C11_Witness ==
    /\ last.op = "settings"
    /\ last.channel = 2
    /\ last.before = NoSetting
    /\ settings[2] = "SYMBOLS"
    /\ settings[1] = NoSetting
    /\ msg.exists
    /\ fired > 0

\* C12: a settings command given a string that names no dice set is
\* rejected: the channel's stored dice set keeps the value it had, neither
\* overwritten nor reset to the default, and no 'Set the dice set'
\* confirmation is sent.
C12_InvalidDiceSetRejected ==
    (last.op = "settings" /\ ~DiceSetValid(last.dice_set_str))
      => /\ settings[last.channel] = last.before
         /\ last.raised = "ValueError"
         /\ last.sent = 0
         /\ last.text = "none"

C12_Witness ==
    /\ last.op = "settings"
    /\ last.dice_set_str = "retired"
    /\ last.before = "SYMBOLS"
    /\ settings[last.channel] = "SYMBOLS"

\* the legality query of a kind of follow-up on a history
Legal(kind, h) ==
    CASE kind = "reroll" -> can_reroll(h)
      [] kind = "free_reroll" -> can_free_reroll(h)
      [] kind = "all_in" -> can_go_all_in(h)

\* the buttons of the view are exactly the kinds that are legal on h
ViewMatches(view, h) ==
    /\ \A j \in 1..Len(view) : FixedPattern(view[j])
    /\ \A k \in Kinds : (\E j \in 1..Len(view) : view[j][2] = k) <=> Legal(k, h)
    /\ Len(view) = Cardinality({k \in Kinds : Legal(k, h)})

\* C13: on every message the bot renders, the initial one and every edited
\* one, the attached buttons are exactly the kinds whose legality query is
\* true on the history that is rendered (for an edit, the history after the
\* transition).
C13_ButtonsAreLegalKinds ==
    /\ msg.exists => ViewMatches(msg.view, msg.hist)
    /\ (Pressed /\ last.edit # "none") => ViewMatches(last.view, last.hist)

C13_Witness ==
    /\ msg.exists
    /\ last.op = "roll"
    /\ Len(msg.view) = 2
    /\ can_go_all_in(msg.hist)
    /\ ~can_free_reroll(msg.hist)

\* the button a press of a fixed-pattern custom id is rebuilt into
PressedButton == from_custom_id(last.custom_id[2], last.custom_id)

\* the history the callback of the last press parsed from the message
ParsedHistory == MessageParser(last.content, PressedButton.dice_set)

\* C14: a callback applies a transition only of its own kind, only when the
\* legality query of that kind is true on the history it parsed, and only
\* one: the history gains one outcome and loses the right of that kind, the
\* other rights stay; when the query is false no transition is applied.
C14_OwnKindOnlyWhenLegal ==
    /\ (Pressed /\ last.transition # "none")
         => /\ FixedPattern(last.custom_id)
            /\ last.transition = PressedButton.kind
            /\ ~ParseFails(last.content, PressedButton.dice_set)
            /\ Legal(PressedButton.kind, ParsedHistory)
            /\ Len(last.hist.outcomes) = Len(ParsedHistory.outcomes) + 1
            /\ \A k \in Kinds :
                  Legal(k, [last.hist EXCEPT !.outcomes = ParsedHistory.outcomes])
                    <=> (k # PressedButton.kind /\ Legal(k, ParsedHistory))
    /\ (Pressed /\ last.parsed /\ last.raised # "ParseError"
             /\ ~Legal(PressedButton.kind, ParsedHistory))
         => (last.transition = "none" /\ last.raised = "RuntimeError")

C14_Witness ==
    /\ Pressed
    /\ last.transition = "free_reroll"
    /\ last.custom_id[2] = "free_reroll"
    /\ Legal("reroll", ParsedHistory)
    /\ Legal("all_in", ParsedHistory)
    /\ last.hist.reroll
    /\ last.hist.all_in
    /\ ~last.hist.free_reroll

\* C15: the dice set of a session is the one of its first render: a
\* follow-up parses and re-renders with the dice set of the pressed button's
\* token, which is that one, and every button on the message carries it,
\* also when a settings command has changed the channel's dice set between
\* the roll and the press.
C15_SessionDiceSetFixed ==
    /\ msg.exists
         => /\ msg.content = generate_roll_message(msg.hist, msg.dice_set)
            /\ \A j \in 1..Len(msg.view) :
                  msg.view[j][6] = DiceSetValue(msg.dice_set)
    /\ (Pressed /\ last.transition # "none")
         => /\ PressedButton.dice_set = msg.dice_set
            /\ ~ParseFails(last.content, msg.dice_set)
            /\ \A j \in 1..Len(last.view) :
                  last.view[j][6] = DiceSetValue(msg.dice_set)
            /\ last.edit = "ok"
                 => msg.content = generate_roll_message(last.hist, msg.dice_set)

C15_Witness ==
    /\ Pressed
    /\ last.edit = "ok"
    /\ last.transition # "none"
    /\ msg.dice_set = "BASIC"
    /\ dice_set_for_interaction(msg.channel) = "SYMBOLS"
    /\ ~last.after_fired

\* C16: the owner of a session never changes: whatever was pressed and by
\* whom, every button on the message carries the user id of the user who
\* issued the /roll, and a press that applies a transition is by that user,
\* whose id the regenerated buttons take.
C16_OwnerNeverChanges ==
    /\ msg.exists
         => \A j \in 1..Len(msg.view) : StrToInt(msg.view[j][4]) = msg.owner
    /\ (Pressed /\ last.transition # "none")
         => /\ last.user = msg.owner
            /\ PressedButton.user_id = msg.owner
            /\ \A j \in 1..Len(last.view) : StrToInt(last.view[j][4]) = msg.owner

C16_Witness ==
    /\ Pressed
    /\ last.outcome = "unauthorized"
    /\ last.user # msg.owner
    /\ fired = 0
    /\ msg.owner = 12
    /\ Len(msg.view) = 3
    /\ \A j \in 1..Len(msg.view) : StrToInt(msg.view[j][4]) = 12

\* C17: the token round trip: the custom id built for a button of a kind,
\* for any user id and any dice set, matches the template of that kind and
\* of no other kind, and from_custom_id rebuilds from it a button of the
\* same user id and the same dice set.
C17_TokenRoundTrip ==
    /\ last.op \in {"token", "token_parsed"}
         => /\ FixedPattern(last.custom_id)
            /\ MatchingKinds(last.custom_id) = {last.kind}
    /\ last.op = "token_parsed"
         => last.buttons = {[kind |-> last.kind, user_id |-> last.user_id,
                             dice_set |-> last.dice_set]}

C17_Witness ==
    /\ last.op = "token_parsed"
    /\ last.kind = "free_reroll"
    /\ last.user_id = 105
    /\ last.dice_set = "SYMBOLS"
    /\ Len(last.custom_id[4]) = 3

\* the handler runs that are commands
Commands == {"settings", "roll", "coin", "d6", "help"}

\* the responses the last handler run issued on the platform: the messages
\* it sent and the edits it attempted
Responses ==
    IF last.op \in Commands THEN last.sent
    ELSE IF Pressed
         THEN (IF last.notice # "none" THEN 1 ELSE 0)
              + (IF last.edit # "none" THEN 1 ELSE 0)
         ELSE 0

\* C18: every handled interaction issues at most one response: a command
\* sends exactly one message, a press by the token's user that is legal on
\* the parsed history attempts exactly one edit and sends no notice, and a
\* press by another user sends exactly one ephemeral notice and attempts no
\* edit.
C18_OneResponsePerInteraction ==
    /\ Responses <= 1
    /\ last.op \in Commands => last.sent = 1
    /\ (Pressed /\ FixedPattern(last.custom_id) /\ last.user = PressedButton.user_id
            /\ ~ParseFails(last.content, PressedButton.dice_set)
            /\ Legal(PressedButton.kind, ParsedHistory))
         => (last.edit # "none" /\ last.notice = "none" /\ Responses = 1)
    /\ (Pressed /\ FixedPattern(last.custom_id) /\ last.user # PressedButton.user_id)
         => (last.notice = "cannot_reroll_others" /\ last.edit = "none"
             /\ Responses = 1)

============================================================================
